---- MODULE Spec2Model ----
(***************************************************************************)
(* Homework lifecycle, rating and daily-leaderboard engine of the          *)
(* HomeworkUploaderBackend (Django REST framework).  The database tables   *)
(* are sets of rows and every HTTP handler is one action; SpecRace and     *)
(* SpecLBRace split submit_for_lesson, auto_rate_missing and the daily     *)
(* calculation at their database statements: the project runs without      *)
(* ATOMIC_REQUESTS, so each statement commits alone.                       *)
(***************************************************************************)
EXTENDS Integers, Sequences, FiniteSets, TLC

\* ------------------------------------------------------------------ bounds
\* The lifecycle specification (Spec): the sizes of its tables.
NumStudents == 1
NumLessons == 1
NumGroups == 1
\* The interleaving specification (SpecRace): its students, its lessons and
\* the requests it holds in flight.
RaceStudents == 1
RaceLessons == 2
NumProcs == 2
\* The teachers of both.
NumTeachers == 2
\* The leaderboard specification (SpecLB): its students, groups, lessons and
\* the scores of its ratings.
LbStudents == 2
LbGroups == 2
LbLessons == 3
LbScores == {1, 2}
\* The interleaved calculations (SpecLBRace): their students and groups.
LbRaceStudents == 3
LbRaceGroups == 1
\* The last day of the clock.
MaxTime == 1

Teachers == 1..NumTeachers
Procs == 1..NumProcs

\* NULL foreign keys and NULL timestamps.
NoGroup == 0
NoTeacher == 0
NoDeadline == -1
NoTime == -1

\* Homework.STATUS_*
STATUS_PENDING == "PENDING"
STATUS_SUBMITTED == "SUBMITTED"
STATUS_RATED == "RATED"

\* A key that the request does not carry ('submission_url' not in request.data).
Absent == "absent"
\* The falsy payload values: NULL and '' are both written "".
Empty == ""
AutoDescription == "Auto-created: Missed deadline"
\* The comment of the zero ratings of auto_rate_missing.
AutoComment == "Homework not submitted before deadline."

\* Rating.score validators (MinValueValidator(1), MaxValueValidator(10)).
MinScore == 1
MaxScore == 10


\* Users: the admin, a teacher profile or a student profile.
Admin == [role |-> "ADMIN", id |-> 0]
TeacherUser(t) == [role |-> "TEACHER", id |-> t]
StudentUser(s) == [role |-> "STUDENT", id |-> s]
is_admin(u) == u.role = "ADMIN"
is_teacher(u) == u.role = "TEACHER"
is_student(u) == u.role = "STUDENT"

VARIABLES
    now,            \* timezone.now(), in days
    groupTeacher,   \* Group.teacher
    groupActive,    \* Group.is_active
    studentActive,  \* User.is_active of the student's user
    studentGroup,   \* Student.group
    lessons,        \* Lesson rows: group, teacher, deadline, created, is_active
    homeworks,      \* Homework rows
    ratings,        \* Rating rows
    leaderboard,    \* DailyLeaderboard rows
    procs,          \* requests in flight between two database statements
    resp            \* the response of the step just taken

vars == <<now, groupTeacher, groupActive, studentActive,
          studentGroup, lessons, homeworks, ratings,
          leaderboard, procs, resp>>

Idle == [pc |-> "idle"]

\* The Student, Lesson and Group tables hold the rows Init gives them.
Students == DOMAIN studentGroup
Lessons == DOMAIN lessons
Groups == DOMAIN groupTeacher

\* Row caps of the tables: one row more than the unique constraints allow, so
\* that a duplicate row is representable.
MaxHomeworkRows == Cardinality(Students) * Cardinality(Lessons) + 1
MaxRatingRows == MaxHomeworkRows * NumTeachers + 1

\* ------------------------------------------------------------ pure helpers
\* Homework.has_submission
has_submission(hw) == hw.submission_url # Empty \/ hw.submission_file # Empty

\* A deadline that counts as passed at once.
DeadlineAlwaysPassed(l) == TRUE

\* Lesson.is_deadline_passed
is_deadline_passed(l) ==
    IF lessons[l].deadline # NoDeadline THEN now > lessons[l].deadline ELSE FALSE

\* lesson.group.teacher, for a lesson that has a group
LessonGroupTeacher(l) == groupTeacher[lessons[l].group]

HomeworkById(id) == CHOOSE h \in homeworks : h.id = id
HomeworkIds == {h.id : h \in homeworks}
RatingIds == {r.id : r \in ratings}

\* The primary key of a new row: the least key the table does not hold.
NewId(rows) ==
    CHOOSE i \in 1..(Cardinality(rows) + 1) :
        /\ \A r \in rows : r.id # i
        /\ \A j \in 1..(i - 1) : \E r \in rows : r.id = j

\* A homeworks table without its unique constraint.
HomeworkUniqueOff(rows, rec) == TRUE

\* A ratings table without its unique constraint.
RatingUniqueOff(rows, rec) == TRUE

\* Homework.Meta.unique_together = ['student', 'lesson']: whether the table
\* accepts row rec beside the rows `rows`.
HomeworkUniqueOk(rows, rec) ==
    \A h \in rows : ~(h.student = rec.student /\ h.lesson = rec.lesson)

\* Rating.Meta.unique_together = ['homework', 'teacher']
RatingUniqueOk(rows, rec) ==
    \A r \in rows : ~(r.homework = rec.homework /\ r.teacher = rec.teacher)

\* HomeworkViewSet.get_queryset: the rows get_object() finds for the user.
HomeworkVisible(u, hw) ==
    \/ is_admin(u)
    \/ /\ is_teacher(u)
       /\ lessons[hw.lesson].group # NoGroup
       /\ LessonGroupTeacher(hw.lesson) = u.id
    \/ /\ is_student(u)
       /\ hw.student = u.id

\* The group checks shared by perform_create and submit_for_lesson.
GroupMismatch(s, l) ==
    \/ lessons[l].group # NoGroup /\ studentGroup[s] # lessons[l].group
    \/ lessons[l].group # NoGroup /\ studentGroup[s] = NoGroup

Response(op, code) == [op |-> op, code |-> code, rated_count |-> 0]
AutoRateResponse(code, n) == [op |-> "auto_rate", code |-> code, rated_count |-> n]

\* -------------------------------------------------------------------- Init
LessonRows == [group : (1..NumGroups) \cup {NoGroup},
               teacher : {NoTeacher, 1},
               deadline : {NoDeadline, 0},
               created : {0},
               is_active : {TRUE}]

Init ==
    /\ now = 0
    /\ groupTeacher = [g \in 1..NumGroups |-> 1]
    /\ groupActive = [g \in 1..NumGroups |-> TRUE]
    /\ studentGroup \in [1..NumStudents -> (1..NumGroups) \cup {NoGroup}]
    /\ studentActive = [s \in 1..NumStudents |-> TRUE]
    /\ lessons \in [1..NumLessons -> LessonRows]
    /\ homeworks = {}
    /\ ratings = {}
    /\ leaderboard = {}
    /\ procs = [p \in Procs |-> Idle]
    /\ resp = Response("init", 0)

\* The clock advances.
Tick ==
    /\ now < MaxTime
    /\ now' = now + 1
    /\ resp' = Response("tick", 0)
    /\ UNCHANGED <<groupTeacher, groupActive, studentActive,
                   studentGroup, lessons, homeworks, ratings,
                   leaderboard, procs>>

\* ------------------------------------------------- homework: create, update
\* The request bodies the handlers are driven with.
AbsentLesson == 0
Body(l, url, file, desc) ==
    [lesson |-> l, submission_url |-> url, submission_file |-> file,
     description |-> desc]
\* A URL, a file, a description alone, or nothing at all.
SubmitInputs ==
    {Body(AbsentLesson, "u1", Absent, Absent),
     Body(AbsentLesson, Absent, "f1", Absent),
     Body(AbsentLesson, Absent, Absent, "d1"),
     Body(AbsentLesson, Absent, Absent, Absent)}
\* The same, an emptied URL (the key sent with ''), or another lesson.
UpdateInputs ==
    SubmitInputs
    \cup {Body(AbsentLesson, Empty, Absent, Absent)}
    \cup {Body(l, Absent, Absent, Absent) : l \in Lessons}

\* The bodies a teacher or an admin edits a homework with: a URL, or a
\* description alone.
StaffInputs ==
    {Body(AbsentLesson, "u1", Absent, Absent),
     Body(AbsentLesson, Absent, Absent, "d1")}

\* request.data.get(key, default)
GetOr(value, default) == IF value = Absent THEN default ELSE value

\* Homework.objects.filter(student=s, lesson=l).first() under
\* ordering = ['-created_at']: the set holding the newest matching row, or {}.
FirstHomework(s, l) ==
    LET found == {h \in homeworks : h.student = s /\ h.lesson = l}
    IN {h \in found : \A k \in found : k.id <= h.id}

\* INSERT INTO homeworks: refused (IntegrityError) by the unique constraint.
HomeworkInsertOk(rows, rec) == HomeworkUniqueOk(rows, rec)

\* UPDATE homeworks ... WHERE id = rec.id (Model.save() writes every column).
HomeworkSaveOk(rec) ==
    HomeworkUniqueOk({h \in homeworks : h.id # rec.id}, rec)
HomeworkSaved(rec) == {h \in homeworks : h.id # rec.id} \cup {rec}

NewHomework(rows, s, l, url, file, desc, status, at) ==
    [id |-> NewId(rows), student |-> s, lesson |-> l,
     submission_url |-> url, submission_file |-> file, description |-> desc,
     status |-> status, submitted_at |-> at]

\* HomeworkViewSet.create -> perform_create -> HomeworkSerializer.create
perform_create(s, l, data) ==
    LET rec == NewHomework(homeworks, s, l, GetOr(data.submission_url, Empty),
                           GetOr(data.submission_file, Empty),
                           GetOr(data.description, Empty),
                           STATUS_SUBMITTED, now)
    IN /\ Cardinality(homeworks) < MaxHomeworkRows
       /\ IF GroupMismatch(s, l) \/ FirstHomework(s, l) # {}
          THEN /\ resp' = Response("create", 400)
               /\ UNCHANGED homeworks
          ELSE IF ~HomeworkInsertOk(homeworks, rec)
          THEN /\ resp' = Response("create", 500)
               /\ UNCHANGED homeworks
          ELSE /\ homeworks' = homeworks \cup {rec}
               /\ resp' = Response("create", 201)
       /\ UNCHANGED <<now, groupTeacher, groupActive, studentActive,
                      studentGroup, lessons, ratings,
                      leaderboard, procs>>

\* An update that only assigns the fields it was sent.
HomeworkSerializer_assign(instance, data) ==
    [instance EXCEPT
          !.lesson = IF data.lesson = AbsentLesson THEN @ ELSE data.lesson,
          !.submission_url = GetOr(data.submission_url, @),
          !.submission_file = GetOr(data.submission_file, @),
          !.description = GetOr(data.description, @)]

\* HomeworkSerializer.update: the instance as super().update() then saves it.
HomeworkSerializer_update(instance, data) ==
    LET restamp ==
            /\ data.submission_url # Absent \/ data.submission_file # Absent
            /\ \/ data.submission_url \notin {Absent, Empty}
               \/ data.submission_file \notin {Absent, Empty}
    IN [instance EXCEPT
          !.status = IF restamp THEN STATUS_SUBMITTED ELSE @,
          !.submitted_at = IF restamp THEN now ELSE @,
          !.lesson = IF data.lesson = AbsentLesson THEN @ ELSE data.lesson,
          !.submission_url = GetOr(data.submission_url, @),
          !.submission_file = GetOr(data.submission_file, @),
          !.description = GetOr(data.description, @)]

\* perform_update's guard for a student: rated work is immutable to them.
UpdateDenied(u, instance) ==
    is_student(u) /\ (instance.status = STATUS_RATED \/ instance.student # u.id)

\* HomeworkViewSet.update / partial_update -> perform_update
perform_update(u, id, data) ==
    /\ id \in HomeworkIds
    /\ LET instance == HomeworkById(id)
           saved == HomeworkSerializer_update(instance, data)
       IN IF ~HomeworkVisible(u, instance)
          THEN /\ resp' = Response("update", 404)
               /\ UNCHANGED homeworks
          ELSE IF UpdateDenied(u, instance)
          THEN /\ resp' = Response("update", 403)
               /\ UNCHANGED homeworks
          ELSE IF ~HomeworkSaveOk(saved)
          THEN /\ resp' = Response("update", 500)
               /\ UNCHANGED homeworks
          ELSE /\ homeworks' = HomeworkSaved(saved)
               /\ resp' = Response("update", 200)
    /\ UNCHANGED <<now, groupTeacher, groupActive, studentActive,
                   studentGroup, lessons, ratings,
                   leaderboard, procs>>

\* ------------------------------------------------------- submit_for_lesson
\* The checks without the one for a RATED row.
SubmitCheckGroupOnly(s, l, existing) ==
    IF GroupMismatch(s, l) THEN 400 ELSE 0

\* What the checks before the first write answer (views.py 186-203): 400 for
\* a group mismatch, 403 for a RATED row, 0 to go on.
SubmitCheck(s, l, existing) ==
    IF GroupMismatch(s, l) THEN 400
    ELSE IF \E h \in existing : h.status = STATUS_RATED THEN 403
    ELSE 0

\* The row submit_for_lesson saves over an existing one (views.py 205-214).
Resubmitted(h, data) ==
    [h EXCEPT !.submission_url = GetOr(data.submission_url, @),
              !.submission_file = GetOr(data.submission_file, @),
              !.description = GetOr(data.description, @),
              !.status = STATUS_SUBMITTED,
              !.submitted_at = now]

\* The write of submit_for_lesson, given the row the existence query found:
\* existing_homework.save() (views.py 212-217) or Homework.objects.create()
\* (views.py 219-230).  The table after it, and the status code.
SubmitResult(existing, s, l, data) ==
    IF existing # {}
    THEN LET saved == Resubmitted(CHOOSE h \in existing : TRUE, data)
         IN IF HomeworkSaveOk(saved)
            THEN [rows |-> HomeworkSaved(saved), code |-> 200]
            ELSE [rows |-> homeworks, code |-> 500]
    ELSE LET created == NewHomework(homeworks, s, l,
                                    GetOr(data.submission_url, Empty),
                                    GetOr(data.submission_file, Empty),
                                    GetOr(data.description, Empty),
                                    STATUS_SUBMITTED, now)
         IN IF HomeworkInsertOk(homeworks, created)
            THEN [rows |-> homeworks \cup {created}, code |-> 201]
            ELSE [rows |-> homeworks, code |-> 500]

\* The whole handler, served without another request in between.
submit_for_lesson(s, l, data) ==
    /\ Cardinality(homeworks) < MaxHomeworkRows
    /\ LET existing == FirstHomework(s, l)
           check == SubmitCheck(s, l, existing)
           res == SubmitResult(existing, s, l, data)
       IN IF check # 0
          THEN /\ resp' = Response("submit", check)
               /\ UNCHANGED homeworks
          ELSE /\ homeworks' = res.rows
               /\ resp' = Response("submit", res.code)
    /\ UNCHANGED <<now, groupTeacher, groupActive, studentActive,
                   studentGroup, lessons, ratings,
                   leaderboard, procs>>

\* The handler as two steps: the existence query, then the write.
SubmitRead(p, s, l, data) ==
    /\ procs[p] = Idle
    /\ LET existing == FirstHomework(s, l)
           check == SubmitCheck(s, l, existing)
       IN IF check # 0
          THEN /\ resp' = Response("submit", check)
               /\ UNCHANGED procs
          ELSE /\ procs' = [procs EXCEPT ![p] =
                              [pc |-> "submit", student |-> s, lesson |-> l,
                               existing |-> existing, data |-> data]]
               /\ resp' = Response("submit_read", 0)
    /\ UNCHANGED <<now, groupTeacher, groupActive, studentActive,
                   studentGroup, lessons, homeworks,
                   ratings, leaderboard>>

SubmitWrite(p) ==
    /\ procs[p].pc = "submit"
    /\ Cardinality(homeworks) < MaxHomeworkRows
    /\ LET q == procs[p]
           res == SubmitResult(q.existing, q.student, q.lesson, q.data)
       IN /\ homeworks' = res.rows
          /\ resp' = Response("submit", res.code)
    /\ procs' = [procs EXCEPT ![p] = Idle]
    /\ UNCHANGED <<now, groupTeacher, groupActive, studentActive,
                   studentGroup, lessons, ratings,
                   leaderboard>>

\* ----------------------------------------------------------------- ratings
NewRating(rows, hw, t, s, score, comment) ==
    [id |-> NewId(rows), homework |-> hw, teacher |-> t, student |-> s,
     score |-> score, comment |-> comment, rating_date |-> now]

\* The group check without the validation of the score.
RatingRejectedByGroup(t, hw, score) ==
    /\ lessons[hw.lesson].group # NoGroup
    /\ LessonGroupTeacher(hw.lesson) # t

\* The serializer's validation of the body, then perform_create's group check
\* (ratings/views.py 63-75).
RatingRejected(t, hw, score) ==
    \/ score < MinScore
    \/ score > MaxScore
    \/ /\ lessons[hw.lesson].group # NoGroup
       /\ LessonGroupTeacher(hw.lesson) # t

\* RatingViewSet.create -> perform_create -> RatingSerializer.create
RatingCreate(t, id, score) ==
    /\ id \in HomeworkIds
    /\ Cardinality(ratings) < MaxRatingRows
    /\ LET homework == HomeworkById(id)
           rating == NewRating(ratings, id, t, homework.student, score, Empty)
       IN IF RatingRejected(t, homework, score)
          THEN /\ resp' = Response("rate", 400)
               /\ UNCHANGED <<ratings, homeworks>>
          ELSE IF ~RatingUniqueOk(ratings, rating)
          THEN /\ resp' = Response("rate", 500)
               /\ UNCHANGED <<ratings, homeworks>>
          ELSE /\ ratings' = ratings \cup {rating}
               /\ homeworks' =
                     HomeworkSaved([homework EXCEPT !.status = STATUS_RATED])
               /\ resp' = Response("rate", 201)
    /\ UNCHANGED <<now, groupTeacher, groupActive, studentActive,
                   studentGroup, lessons, leaderboard,
                   procs>>

\* RatingViewSet.get_queryset: the ratings get_object() finds for a teacher.
RatingVisible(t, r) ==
    LET l == HomeworkById(r.homework).lesson
    IN lessons[l].group # NoGroup /\ LessonGroupTeacher(l) = t

\* A body without 'homework'.
AbsentHomework == 0
\* A body without 'score'.
AbsentScore == -1

\* RatingViewSet.update / partial_update (IsTeacher) -> RatingSerializer's
\* inherited update: the fields sent are assigned, the row is saved; the
\* student and the homework's status are left alone.
RatingUpdate(t, rid, hw, score) ==
    /\ rid \in RatingIds
    /\ LET instance == CHOOSE r \in ratings : r.id = rid
           saved == [instance EXCEPT
                        !.homework = IF hw = AbsentHomework THEN @ ELSE hw,
                        !.score = IF score = AbsentScore THEN @ ELSE score]
           others == {r \in ratings : r.id # rid}
       IN IF ~RatingVisible(t, instance)
          THEN /\ resp' = Response("rating_update", 404)
               /\ UNCHANGED ratings
          ELSE IF \/ hw \notin HomeworkIds \cup {AbsentHomework}
                  \/ score # AbsentScore /\ (score < MinScore \/ score > MaxScore)
          THEN /\ resp' = Response("rating_update", 400)
               /\ UNCHANGED ratings
          ELSE IF ~RatingUniqueOk(others, saved)
          THEN /\ resp' = Response("rating_update", 500)
               /\ UNCHANGED ratings
          ELSE /\ ratings' = others \cup {saved}
               /\ resp' = Response("rating_update", 200)
    /\ UNCHANGED <<now, groupTeacher, groupActive, studentActive,
                   studentGroup, lessons, homeworks,
                   leaderboard, procs>>

\* RatingViewSet.destroy (IsAdmin)
RatingDestroy(rid) ==
    /\ rid \in RatingIds
    /\ ratings' = {r \in ratings : r.id # rid}
    /\ resp' = Response("rating_destroy", 204)
    /\ UNCHANGED <<now, groupTeacher, groupActive, studentActive,
                   studentGroup, lessons, homeworks,
                   leaderboard, procs>>

\* GroupViewSet.assign_teacher (IsAdmin); teacher_id None removes the teacher.
assign_teacher(g, t) ==
    /\ groupTeacher' = [groupTeacher EXCEPT ![g] = t]
    /\ resp' = Response("assign_teacher", 200)
    /\ UNCHANGED <<now, groupActive, studentActive,
                   studentGroup, lessons, homeworks, ratings,
                   leaderboard, procs>>

\* --------------------------------------------------------- auto_rate_missing
\* The callers auto_rate_missing admits (IsAdminOrTeacher).
Staff == {Admin} \cup {TeacherUser(t) : t \in Teachers}

\* LessonViewSet.get_queryset: the lessons get_object() finds for the user.
LessonVisible(u, l) ==
    \/ is_admin(u)
    \/ /\ is_teacher(u)
       /\ lessons[l].group # NoGroup
       /\ LessonGroupTeacher(l) = u.id
    \/ /\ is_student(u)
       /\ studentGroup[u.id] # NoGroup
       /\ lessons[l].group = studentGroup[u.id]

\* A resolution that falls back on teacher 1.
ResolvedOrFirstTeacher(u, l) ==
    IF lessons[l].teacher # NoTeacher THEN lessons[l].teacher
    ELSE IF is_teacher(u) THEN u.id
    ELSE 1

\* The teacher the zero ratings are attributed to (lessons/views.py 211-213).
ResolvedTeacher(u, l) ==
    IF lessons[l].teacher # NoTeacher THEN lessons[l].teacher
    ELSE IF is_teacher(u) THEN u.id
    ELSE NoTeacher

\* The answer of the checks before the loop (lessons/views.py 192-216), 0 to
\* go on.
AutoRateCheck(u, l) ==
    IF ~LessonVisible(u, l) THEN 404
    ELSE IF /\ is_teacher(u)
            /\ lessons[l].group # NoGroup
            /\ LessonGroupTeacher(l) # u.id THEN 403
    ELSE IF ~is_deadline_passed(l) THEN 400
    ELSE IF lessons[l].group = NoGroup THEN 400
    ELSE IF ResolvedTeacher(u, l) = NoTeacher THEN 400
    ELSE 0

\* A query that takes every student of the group.
RosterStudents(l) ==
    {s \in Students : studentGroup[s] = lessons[l].group}

\* A query that takes the students of the group without a rating on the
\* lesson.
MissingStudentsUnrated(l) ==
    {s \in Students :
        /\ studentGroup[s] = lessons[l].group
        /\ ~\E h \in homeworks :
              /\ h.lesson = l /\ h.student = s
              /\ \E r \in ratings : r.homework = h.id}

\* all_students.exclude(id__in=submitted_student_ids), as the loop's query
\* reads it (lessons/views.py 205-209).
MissingStudents(l) ==
    {s \in Students :
        /\ studentGroup[s] = lessons[l].group
        /\ ~\E h \in homeworks : h.lesson = l /\ h.student = s}

\* A get_or_create whose defaults leave the new homework pending.
GetOrCreatePending(rows, s, l) ==
    LET found == {h \in rows : h.student = s /\ h.lesson = l}
        rec == NewHomework(rows, s, l, Empty, Empty, AutoDescription,
                           STATUS_PENDING, NoTime)
    IN IF found # {}
       THEN [rows |-> rows, id |-> (CHOOSE h \in found : TRUE).id,
             created |-> FALSE]
       ELSE [rows |-> rows \cup {rec}, id |-> rec.id, created |-> TRUE]

\* Homework.objects.get_or_create(student, lesson, defaults) on table rows.
GetOrCreate(rows, s, l) ==
    LET found == {h \in rows : h.student = s /\ h.lesson = l}
        rec == NewHomework(rows, s, l, Empty, Empty, AutoDescription,
                           STATUS_RATED, NoTime)
    IN IF found # {}
       THEN [rows |-> rows, id |-> (CHOOSE h \in found : TRUE).id,
             created |-> FALSE]
       ELSE [rows |-> rows \cup {rec}, id |-> rec.id, created |-> TRUE]

\* A rating of the lowest score the validators admit in place of the zero.
ZeroRatedAsOne(rows, hw, t, s, created) ==
    IF \E r \in rows : r.homework = hw
    THEN [rows |-> rows, counted |-> FALSE]
    ELSE [rows |-> rows \cup {NewRating(rows, hw, t, s, MinScore, AutoComment)},
          counted |-> created]

\* The zero rating of one student (lessons/views.py 229-238): the ratings
\* table after it, and whether the student is counted.
ZeroRated(rows, hw, t, s, created) ==
    IF \E r \in rows : r.homework = hw
    THEN [rows |-> rows, counted |-> FALSE]
    ELSE [rows |-> rows \cup {NewRating(rows, hw, t, s, 0, AutoComment)},
          counted |-> created]

\* The loop over the missing students in the order `order`, from the tables
\* hw and rt.
RECURSIVE AutoRateLoop(_, _, _, _, _, _)
AutoRateLoop(order, l, t, hw, rt, n) ==
    IF order = <<>> THEN [hw |-> hw, rt |-> rt, n |-> n]
    ELSE LET s == Head(order)
             got == GetOrCreate(hw, s, l)
             zero == ZeroRated(rt, got.id, t, s, got.created)
         IN AutoRateLoop(Tail(order), l, t, got.rows, zero.rows,
                         IF zero.counted THEN n + 1 ELSE n)

\* The orders a query without ORDER BY may return a set of rows in.
Orders(S) ==
    {q \in [1..Cardinality(S) -> S] : \A i, j \in DOMAIN q : i # j => q[i] # q[j]}

\* The whole handler, served without another request in between.
auto_rate_missing(u, l) ==
    LET check == AutoRateCheck(u, l)
    IN /\ IF check # 0
          THEN /\ resp' = AutoRateResponse(check, 0)
               /\ UNCHANGED <<homeworks, ratings>>
          ELSE \E order \in Orders(MissingStudents(l)) :
                  LET res == AutoRateLoop(order, l, ResolvedTeacher(u, l),
                                          homeworks, ratings, 0)
                  IN /\ homeworks' = res.hw
                     /\ ratings' = res.rt
                     /\ resp' = AutoRateResponse(200, res.n)
       /\ UNCHANGED <<now, groupTeacher, groupActive, studentActive,
                      studentGroup, lessons, leaderboard,
                      procs>>

\* Scores the rating requests of the lifecycle specification carry: one the
\* validators accept, and one they reject on either side.
LifecycleScores == {0, 5, 11}

Next ==
    \/ Tick
    \/ \E s \in Students, l \in Lessons, d \in SubmitInputs :
          perform_create(s, l, d)
    \/ \E s \in Students, id \in HomeworkIds, d \in UpdateInputs :
          perform_update(StudentUser(s), id, d)
    \/ \E t \in Teachers, id \in HomeworkIds, d \in StaffInputs :
          perform_update(TeacherUser(t), id, d)
    \/ \E id \in HomeworkIds, d \in StaffInputs : perform_update(Admin, id, d)
    \/ \E s \in Students, l \in Lessons, d \in SubmitInputs :
          submit_for_lesson(s, l, d)
    \/ \E t \in Teachers, id \in HomeworkIds, sc \in LifecycleScores :
          RatingCreate(t, id, sc)
    \/ \E t \in Teachers, rid \in RatingIds, sc \in LifecycleScores :
          RatingUpdate(t, rid, AbsentHomework, sc)
    \/ \E rid \in RatingIds : RatingDestroy(rid)
    \/ \E g \in Groups, t \in Teachers \cup {NoTeacher} : assign_teacher(g, t)
    \/ \E t \in Teachers, l \in Lessons : auto_rate_missing(TeacherUser(t), l)
    \/ \E l \in Lessons : auto_rate_missing(Admin, l)

Spec == Init /\ [][Next]_vars

\* ------------------------------------------- the handlers, statement by step
\* auto_rate_missing up to the query of its loop (lessons/views.py 192-219).
AutoStart(p, u, l) ==
    /\ procs[p] = Idle
    /\ LET check == AutoRateCheck(u, l)
           missing == MissingStudents(l)
       IN IF check # 0
          THEN /\ resp' = AutoRateResponse(check, 0)
               /\ UNCHANGED procs
          ELSE IF missing = {}
          THEN /\ resp' = AutoRateResponse(200, 0)
               /\ UNCHANGED procs
          ELSE /\ procs' = [procs EXCEPT ![p] =
                              [pc |-> "auto_hw", lesson |-> l,
                               teacher |-> ResolvedTeacher(u, l),
                               missing |-> missing, n |-> 0]]
               /\ resp' = Response("auto_start", 0)
    /\ UNCHANGED <<now, groupTeacher, groupActive, studentActive,
                   studentGroup, lessons, homeworks,
                   ratings, leaderboard>>

\* The loop's get_or_create for its next student (lessons/views.py 220-227).
AutoGetOrCreate(p) ==
    /\ procs[p].pc = "auto_hw"
    /\ Cardinality(homeworks) < MaxHomeworkRows
    /\ \E s \in procs[p].missing :
          LET got == GetOrCreate(homeworks, s, procs[p].lesson)
          IN /\ homeworks' = got.rows
             /\ procs' = [procs EXCEPT ![p] =
                             [pc |-> "auto_rating", lesson |-> procs[p].lesson,
                              teacher |-> procs[p].teacher,
                              missing |-> procs[p].missing \ {s},
                              n |-> procs[p].n, student |-> s,
                              homework |-> got.id, created |-> got.created]]
    /\ resp' = Response("auto_homework", 0)
    /\ UNCHANGED <<now, groupTeacher, groupActive, studentActive,
                   studentGroup, lessons, ratings,
                   leaderboard>>

\* The loop's zero rating of that student (lessons/views.py 229-238), and
\* the response once the loop is through.
AutoRating(p) ==
    /\ procs[p].pc = "auto_rating"
    /\ Cardinality(ratings) < MaxRatingRows
    /\ LET q == procs[p]
           zero == ZeroRated(ratings, q.homework, q.teacher, q.student,
                             q.created)
           n == IF zero.counted THEN q.n + 1 ELSE q.n
       IN /\ ratings' = zero.rows
          /\ IF q.missing = {}
             THEN /\ procs' = [procs EXCEPT ![p] = Idle]
                  /\ resp' = AutoRateResponse(200, n)
             ELSE /\ procs' = [procs EXCEPT ![p] =
                                  [pc |-> "auto_hw", lesson |-> q.lesson,
                                   teacher |-> q.teacher,
                                   missing |-> q.missing, n |-> n]]
                  /\ resp' = Response("auto_rating", 0)
    /\ UNCHANGED <<now, groupTeacher, groupActive, studentActive,
                   studentGroup, lessons, homeworks,
                   leaderboard>>

\* The lesson of the interleaving specification: in group 1, taught by
\* teacher 1, due on day 0.
InitRace ==
    /\ now = 0
    /\ groupTeacher = [g \in 1..NumGroups |-> 1]
    /\ groupActive = [g \in 1..NumGroups |-> TRUE]
    /\ studentGroup = [s \in 1..RaceStudents |-> 1]
    /\ studentActive = [s \in 1..RaceStudents |-> TRUE]
    /\ lessons = [l \in 1..RaceLessons |->
                    [group |-> 1, teacher |-> 1, deadline |-> 0,
                     created |-> 0, is_active |-> TRUE]]
    /\ homeworks = {}
    /\ ratings = {}
    /\ leaderboard = {}
    /\ procs = [p \in Procs |-> Idle]
    /\ resp = Response("init", 0)

\* The bodies of the interleaving specification: a URL, or nothing.
RaceInputs ==
    {Body(AbsentLesson, "u1", Absent, Absent),
     Body(AbsentLesson, Absent, Absent, Absent)}

NextRace ==
    \/ Tick
    \/ \E p \in Procs, s \in Students, l \in Lessons, d \in RaceInputs :
          SubmitRead(p, s, l, d)
    \/ \E p \in Procs : SubmitWrite(p)
    \/ \E s \in Students, l \in Lessons :
          perform_create(s, l, Body(AbsentLesson, "u1", Absent, Absent))
    \/ \E s \in Students, id \in HomeworkIds, l \in Lessons :
          perform_update(StudentUser(s), id, Body(l, Absent, Absent, Absent))
    \/ \E p \in Procs, l \in Lessons : AutoStart(p, TeacherUser(1), l)
    \/ \E p \in Procs : AutoGetOrCreate(p)
    \/ \E p \in Procs : AutoRating(p)
    \/ \E rid \in RatingIds : RatingDestroy(rid)

SpecRace == InitRace /\ [][NextRace]_vars

\* ------------------------------------------------------------ group roster
\* GroupViewSet.assign_student (IsAdmin)
assign_student(g, s) ==
    /\ studentGroup' = [studentGroup EXCEPT ![s] = g]
    /\ resp' = Response("assign_student", 200)
    /\ UNCHANGED <<now, groupTeacher, groupActive, studentActive,
                   lessons, homeworks, ratings,
                   leaderboard, procs>>

\* GroupViewSet.remove_student (IsAdmin): 404 for a student of another group.
remove_student(g, s) ==
    /\ IF studentGroup[s] = g
       THEN /\ studentGroup' = [studentGroup EXCEPT ![s] = NoGroup]
            /\ resp' = Response("remove_student", 200)
       ELSE /\ resp' = Response("remove_student", 404)
            /\ UNCHANGED studentGroup
    /\ UNCHANGED <<now, groupTeacher, groupActive, studentActive,
                   lessons, homeworks, ratings,
                   leaderboard, procs>>

\* ------------------------------------------------------- daily leaderboard
\* A request without 'date', with a 'date' that is no ISO date, without
\* 'group'.
AbsentDate == -1
InvalidDate == -2
AbsentGroup == 0

\* Rating.objects.filter(rating_date=d, student=s)
RatingsOf(s, d) == {r \in ratings : r.student = s /\ r.rating_date = d}

RECURSIVE SumScores(_)
SumScores(rs) ==
    IF rs = {} THEN 0
    ELSE LET r == CHOOSE x \in rs : TRUE IN r.score + SumScores(rs \ {r})

\* The students of values('student') over Rating.objects.filter(
\* rating_date=d, student__group=g).
GroupRated(g, d) ==
    {s \in Students : studentGroup[s] = g /\ RatingsOf(s, d) # {}}

\* Avg('score') of s1 is not below that of s2.
AvgNotBelow(s1, s2, d) ==
    SumScores(RatingsOf(s1, d)) * Cardinality(RatingsOf(s2, d))
        >= SumScores(RatingsOf(s2, d)) * Cardinality(RatingsOf(s1, d))

\* The orders .order_by('-avg_score') may return the students in: descending
\* averages, equal averages in any order.
student_scores(g, d) ==
    {q \in Orders(GroupRated(g, d)) :
        \A i, j \in DOMAIN q : i < j => AvgNotBelow(q[i], q[j], d)}

\* A variant that cuts the mean off after its first decimal.
Floor1(total, n) == 10 * ((10 * total) \div n)

\* round(avg_score, 1) of the mean total / n as DecimalField(4, 2) stores it,
\* in hundredths: the nearest tenth, a half going to the even tenth.
Round1(total, n) ==
    LET q == (10 * total) \div n
        r == (10 * total) % n
        tenths == IF 2 * r < n THEN q
                  ELSE IF 2 * r > n THEN q + 1
                  ELSE IF q % 2 = 0 THEN q ELSE q + 1
    IN 10 * tenths

\* A variant that gives students of equal mean the same rank.
GroupEntriesSharedRank(g, d, q) ==
    {[student |-> q[i], group |-> g, date |-> d,
      average_score |-> Round1(SumScores(RatingsOf(q[i], d)),
                               Cardinality(RatingsOf(q[i], d))),
      rank |-> 1 + Cardinality({j \in DOMAIN q :
                                  ~AvgNotBelow(q[i], q[j], d)}),
      total_ratings |-> Cardinality(RatingsOf(q[i], d))] : i \in DOMAIN q}

\* The DailyLeaderboard rows of one group, the students taken in order q.
GroupEntries(g, d, q) ==
    {[student |-> q[i], group |-> g, date |-> d,
      average_score |-> Round1(SumScores(RatingsOf(q[i], d)),
                               Cardinality(RatingsOf(q[i], d))),
      rank |-> i,
      total_ratings |-> Cardinality(RatingsOf(q[i], d))] : i \in DOMAIN q}

\* The lists all_leaderboard_entries can end up as, over the groups gs.
RECURSIVE AllEntries(_, _)
AllEntries(gs, d) ==
    IF gs = {} THEN {{}}
    ELSE LET g == CHOOSE x \in gs : TRUE
         IN {GroupEntries(g, d, q) \cup rest :
                q \in student_scores(g, d), rest \in AllEntries(gs \ {g}, d)}

\* A table without the unique constraint.
LeaderboardUniqueOff(rows, entries) == TRUE

\* DailyLeaderboard.Meta.unique_together = ['student', 'date', 'group']
LeaderboardUniqueOk(rows, entries) ==
    \A e \in entries, r \in rows :
        ~(e.student = r.student /\ e.date = r.date /\ e.group = r.group)

\* The groups of the request (ratings/views.py 338-347).
CalcGroups(group_id) ==
    IF group_id # AbsentGroup THEN {g \in Groups : g = group_id}
    ELSE {g \in Groups : groupActive[g]}

\* A calculation that deletes nothing.
CalcKeptAll(rows, target_date, group_id) == rows

\* A DELETE that spares the rows of students who still have ratings.
CalcKeptRated(rows, target_date, group_id) ==
    {e \in rows :
        \/ ~(e.date = target_date /\ (group_id = AbsentGroup \/ e.group = group_id))
        \/ RatingsOf(e.student, target_date) # {}}

\* A DELETE that takes every row of the date, whatever the group.
CalcKeptOtherDates(rows, target_date, group_id) ==
    {e \in rows : e.date # target_date}

\* The rows the DELETE leaves (ratings/views.py 350-353).
CalcKept(rows, target_date, group_id) ==
    IF group_id # AbsentGroup
    THEN {e \in rows : ~(e.date = target_date /\ e.group = group_id)}
    ELSE {e \in rows : e.date # target_date}

TargetDate(date_param) == IF date_param = AbsentDate THEN now ELSE date_param

CalcResponse(code, target_date, group_id, processed, count) ==
    [op |-> "calc", code |-> code, rated_count |-> 0, date |-> target_date,
     group |-> group_id, groups_processed |-> processed, count |-> count]

\* What the checks before the DELETE answer, 0 to go on.
CalcCheck(date_param, group_id) ==
    IF date_param = InvalidDate THEN 400
    ELSE IF group_id # AbsentGroup /\ CalcGroups(group_id) = {} THEN 404
    ELSE 0

\* A bulk_create that answers 201 for an empty list as well.
CalcInsertedAlways(rows, entries, target_date, group_id) ==
    [rows |-> rows \cup entries,
     resp |-> CalcResponse(201, target_date, group_id,
                           Cardinality({e.group : e \in entries}),
                           Cardinality(entries))]

\* The table after the bulk_create of entries, and the response.
CalcInserted(rows, entries, target_date, group_id) ==
    LET processed == Cardinality({e.group : e \in entries})
    IN IF entries = {}
       THEN [rows |-> rows,
             resp |-> CalcResponse(404, target_date, group_id, 0, 0)]
       ELSE IF ~LeaderboardUniqueOk(rows, entries)
       THEN [rows |-> rows,
             resp |-> CalcResponse(500, target_date, group_id, 0, 0)]
       ELSE [rows |-> rows \cup entries,
             resp |-> CalcResponse(201, target_date, group_id, processed,
                                   Cardinality(entries))]

\* calculate_daily_leaderboard, served without another request in between.
calculate_daily_leaderboard(date_param, group_id) ==
    LET check == CalcCheck(date_param, group_id)
        target_date == TargetDate(date_param)
    IN /\ IF check # 0
          THEN /\ resp' = CalcResponse(check, date_param, group_id, 0, 0)
               /\ UNCHANGED leaderboard
          ELSE \E entries \in AllEntries(CalcGroups(group_id), target_date) :
                  LET res == CalcInserted(
                                 CalcKept(leaderboard, target_date, group_id),
                                 entries, target_date, group_id)
                  IN /\ leaderboard' = res.rows
                     /\ resp' = res.resp
       /\ UNCHANGED <<now, groupTeacher, groupActive, studentActive,
                      studentGroup, lessons,
                      homeworks, ratings, procs>>

\* The leaderboard specification (SpecLB) starts from a database of rated
\* homework: group 1 active, lessons without a group, every homework rated
\* once by teacher 1 on day 0.  The calculation reads a student's scores as a bag, so the
\* scores of a student are drawn in ascending order over the lessons.
ScoreLists ==
    {q \in UNION {[1..n -> LbScores] : n \in 0..LbLessons} :
        \A i, j \in DOMAIN q : i < j => q[i] <= q[j]}

RatedHomework(s, l) ==
    [id |-> (s - 1) * LbLessons + l, student |-> s, lesson |-> l,
     submission_url |-> "u1", submission_file |-> Empty,
     description |-> Empty, status |-> STATUS_RATED, submitted_at |-> 0]

GivenRating(s, l, score) ==
    [id |-> (s - 1) * LbLessons + l, homework |-> (s - 1) * LbLessons + l,
     teacher |-> 1, student |-> s, score |-> score, comment |-> Empty,
     rating_date |-> 0]

InitLB ==
    /\ now = 0
    /\ groupTeacher = [g \in 1..LbGroups |-> 1]
    /\ groupActive \in {f \in [1..LbGroups -> BOOLEAN] : f[1]}
    /\ studentGroup \in [1..LbStudents -> (1..LbGroups) \cup {NoGroup}]
    /\ studentActive = [s \in 1..LbStudents |-> TRUE]
    /\ lessons = [l \in 1..LbLessons |->
                    [group |-> NoGroup, teacher |-> 1, deadline |-> NoDeadline,
                     created |-> 0, is_active |-> TRUE]]
    /\ \E scores \in [1..LbStudents -> ScoreLists] :
          LET rated == {x \in (1..LbStudents) \X (1..LbLessons) :
                           x[2] \in DOMAIN scores[x[1]]}
          IN /\ homeworks = {RatedHomework(x[1], x[2]) : x \in rated}
             /\ ratings = {GivenRating(x[1], x[2], scores[x[1]][x[2]]) :
                              x \in rated}
    /\ leaderboard = {}
    /\ procs = [p \in Procs |-> Idle]
    /\ resp = Response("init", 0)

\* The dates and groups of the calculation requests: day 0, today by default,
\* a malformed date; every group, none, and a group that does not exist.
CalcDates == {0, AbsentDate, InvalidDate}
CalcGroupIds == (1..(LbGroups + 1)) \cup {AbsentGroup}

NextLB ==
    \/ \E d \in CalcDates, g \in CalcGroupIds : calculate_daily_leaderboard(d, g)
    \/ \E g \in Groups, s \in Students : assign_student(g, s)
    \/ \E g \in Groups, s \in Students : remove_student(g, s)

SpecLB == InitLB /\ [][NextLB]_vars

\* The leaderboard over two days (SpecLBDates): every student rated once, on
\* day 0 or on day 1.
LbDates == {0, 1}

InitLBDates ==
    /\ now = 0
    /\ groupTeacher = [g \in 1..LbGroups |-> 1]
    /\ groupActive \in {f \in [1..LbGroups -> BOOLEAN] : f[1]}
    /\ studentGroup \in [1..LbStudents -> (1..LbGroups) \cup {NoGroup}]
    /\ studentActive = [s \in 1..LbStudents |-> TRUE]
    /\ lessons = [l \in 1..LbLessons |->
                    [group |-> NoGroup, teacher |-> 1, deadline |-> NoDeadline,
                     created |-> 0, is_active |-> TRUE]]
    /\ \E dates \in [1..LbStudents -> LbDates] :
          /\ homeworks = {RatedHomework(s, 1) : s \in 1..LbStudents}
          /\ ratings = {[GivenRating(s, 1, 1) EXCEPT !.rating_date = dates[s]] :
                           s \in 1..LbStudents}
    /\ leaderboard = {}
    /\ procs = [p \in Procs |-> Idle]
    /\ resp = Response("init", 0)

NextLBDates ==
    \/ \E d \in LbDates, g \in Groups \cup {AbsentGroup} :
          calculate_daily_leaderboard(d, g)
    \/ \E g \in Groups, s \in Students : assign_student(g, s)
    \/ \E g \in Groups, s \in Students : remove_student(g, s)

SpecLBDates == InitLBDates /\ [][NextLBDates]_vars

\* DailyLeaderboardViewSet.get_queryset: the rows a reader's list shows.
LeaderboardList(u, date_param, group_param) ==
    {e \in leaderboard :
        /\ e.date = TargetDate(date_param)
        /\ group_param = AbsentGroup \/ e.group = group_param
        /\ \/ is_admin(u)
           \/ is_teacher(u) /\ groupTeacher[e.group] = u.id
           \/ /\ is_student(u)
              /\ studentGroup[u.id] # NoGroup
              /\ e.group = studentGroup[u.id]}

\* The state after the DELETE, with the number of rows it removed.
CalcDeleteResponse(n) ==
    [op |-> "calc_delete", code |-> 0, rated_count |-> 0, deleted |-> n]

\* ------------------------------- the calculation, statement by statement
\* The checks and the DELETE (ratings/views.py 323-353).
CalcDelete(p, date_param, group_id) ==
    /\ procs[p] = Idle
    /\ LET check == CalcCheck(date_param, group_id)
           target_date == TargetDate(date_param)
       IN IF check # 0
          THEN /\ resp' = CalcResponse(check, date_param, group_id, 0, 0)
               /\ UNCHANGED <<leaderboard, procs>>
          ELSE /\ leaderboard' = CalcKept(leaderboard, target_date, group_id)
               /\ procs' = [procs EXCEPT ![p] =
                              [pc |-> "calc_read", date |-> target_date,
                               group |-> group_id]]
               /\ resp' = CalcDeleteResponse(
                             Cardinality(leaderboard)
                             - Cardinality(CalcKept(leaderboard, target_date,
                                                    group_id)))
    /\ UNCHANGED <<now, groupTeacher, groupActive, studentActive, studentGroup, lessons,
                   homeworks, ratings>>

\* The queries of the loop over the groups (ratings/views.py 359-395).
CalcRead(p) ==
    /\ procs[p].pc = "calc_read"
    /\ \E entries \in AllEntries(CalcGroups(procs[p].group), procs[p].date) :
          procs' = [procs EXCEPT ![p] =
                      [pc |-> "calc_insert", date |-> procs[p].date,
                       group |-> procs[p].group, entries |-> entries]]
    /\ resp' = Response("calc_read", 0)
    /\ UNCHANGED <<now, groupTeacher, groupActive, studentActive, studentGroup, lessons,
                   homeworks, ratings, leaderboard>>

\* The bulk_create and the response (ratings/views.py 397-412).
CalcInsert(p) ==
    /\ procs[p].pc = "calc_insert"
    /\ LET q == procs[p]
           res == CalcInserted(leaderboard, q.entries, q.date, q.group)
       IN /\ leaderboard' = res.rows
          /\ resp' = res.resp
    /\ procs' = [procs EXCEPT ![p] = Idle]
    /\ UNCHANGED <<now, groupTeacher, groupActive, studentActive, studentGroup, lessons,
                   homeworks, ratings>>

\* The database of the interleaved calculations (SpecLBRace): one group, and
\* every student rated once on day 0.
InitLBRace ==
    /\ now = 0
    /\ groupTeacher = [g \in 1..LbRaceGroups |-> 1]
    /\ groupActive = [g \in 1..LbRaceGroups |-> TRUE]
    /\ studentGroup \in [1..LbRaceStudents -> (1..LbRaceGroups) \cup {NoGroup}]
    /\ studentActive = [s \in 1..LbRaceStudents |-> TRUE]
    /\ lessons = [l \in 1..LbLessons |->
                    [group |-> NoGroup, teacher |-> 1, deadline |-> NoDeadline,
                     created |-> 0, is_active |-> TRUE]]
    /\ \E scores \in [1..LbRaceStudents -> LbScores] :
          /\ homeworks = {RatedHomework(s, 1) : s \in 1..LbRaceStudents}
          /\ ratings = {GivenRating(s, 1, scores[s]) : s \in 1..LbRaceStudents}
    /\ leaderboard = {}
    /\ procs = [p \in Procs |-> Idle]
    /\ resp = Response("init", 0)

NextLBRace ==
    \/ \E p \in Procs, d \in CalcDates, g \in Groups \cup {AbsentGroup} :
          CalcDelete(p, d, g)
    \/ \E p \in Procs : CalcRead(p)
    \/ \E p \in Procs : CalcInsert(p)
    \/ \E g \in Groups, s \in Students : assign_student(g, s)
    \/ \E g \in Groups, s \in Students : remove_student(g, s)

SpecLBRace == InitLBRace /\ [][NextLBRace]_vars

\* ------------------------------------------------------------------ reports
\* The days of a month, and a request without 'month'.
MonthLength == 30
AbsentMonth == -2

\* The month of a day: days -30..-1 are last month, 0..29 this month.
MonthOf(t) == t \div MonthLength

\* lessons_query: the active lessons created in the month, under the scope of
\* the request (ratings/views.py 190-208).
MonthlyLessons(u, group_param, month) ==
    {l \in Lessons :
        /\ MonthOf(lessons[l].created) = month
        /\ lessons[l].is_active
        /\ IF group_param # AbsentGroup THEN lessons[l].group = group_param
           ELSE IF is_teacher(u)
           THEN lessons[l].group # NoGroup /\ LessonGroupTeacher(l) = u.id
           ELSE IF is_student(u) THEN lessons[l].group = studentGroup[u.id]
           ELSE TRUE}

\* A count of every lesson of the query.
AllCountable(lq) == lq

\* countable_lesson_ids (ratings/views.py 213-222).
CountableLessons(lq) ==
    {l \in lq :
        \/ lessons[l].deadline # NoDeadline /\ lessons[l].deadline < now
        \/ \E h \in homeworks : h.lesson = l /\ h.status = STATUS_RATED}

\* students_query (ratings/views.py 228-238).
MonthlyStudents(u, group_param) ==
    {s \in Students :
        /\ studentActive[s]
        /\ IF group_param # AbsentGroup THEN studentGroup[s] = group_param
           ELSE IF is_teacher(u)
           THEN studentGroup[s] # NoGroup /\ groupTeacher[studentGroup[s]] = u.id
           ELSE IF is_student(u) THEN studentGroup[s] = studentGroup[u.id]
           ELSE TRUE}

\* Rating.objects.filter(homework__lesson_id__in=countable), of student s.
MonthRatings(s, countable) ==
    {r \in ratings :
        r.student = s /\ HomeworkById(r.homework).lesson \in countable}

\* An entry whose average is taken over the student's rated lessons.
MonthEntryPerRating(s, countable) ==
    LET rs == MonthRatings(s, countable)
    IN [student |-> s,
        total_score |-> SumScores(rs),
        rated_count |-> Cardinality(rs),
        avg_score |-> IF rs = {} THEN 0
                      ELSE Round1(SumScores(rs), Cardinality(rs))]

\* The student_scores entry of s (ratings/views.py 254-269); avg_score is
\* round(total_score / total_countable_lessons, 1), in hundredths.
MonthEntry(s, countable) ==
    LET rs == MonthRatings(s, countable)
    IN [student |-> s,
        total_score |-> SumScores(rs),
        rated_count |-> Cardinality(rs),
        avg_score |-> Round1(SumScores(rs), Cardinality(countable))]

\* A sort on avg_score alone.
MonthAvgNotBelow(a, b) == a.avg_score >= b.avg_score

\* The sort key (avg_score, total_score) of a is not below that of b.
MonthKeyNotBelow(a, b) ==
    \/ a.avg_score > b.avg_score
    \/ a.avg_score = b.avg_score /\ a.total_score >= b.total_score

\* The orders student_scores can have after the stable sort with
\* reverse=True: the students query has no ORDER BY, so entries of equal key
\* stand in any order.
MonthlyOrders(S, countable) ==
    {q \in Orders(S) :
        \A i, j \in DOMAIN q :
            i < j => MonthKeyNotBelow(MonthEntry(q[i], countable),
                                      MonthEntry(q[j], countable))}

\* leaderboard_data (ratings/views.py 275-295).
leaderboard_data(q, countable) ==
    [i \in DOMAIN q |->
        [rank |-> i, student |-> q[i],
         average_score |-> MonthEntry(q[i], countable).avg_score,
         total_ratings |-> MonthEntry(q[i], countable).rated_count]]

\* The response of monthly, with the handler's lessons_query and
\* countable_lesson_ids beside it.
MonthlyResponse(lq, countable, board) ==
    [op |-> "monthly", code |-> 200, rated_count |-> 0,
     leaderboard |-> board, total_lessons |-> Cardinality(lq),
     lessons_query |-> lq, countable_lesson_ids |-> countable]

\* The answers DailyLeaderboardViewSet.monthly can give in the current
\* state: one for each order the sort can leave the entries in.  lq and
\* countable are the handler's lessons_query and countable_lesson_ids, each
\* computed once.
MonthlyAnswers(u, group_param, month_param) ==
    LET month == IF month_param = AbsentMonth THEN MonthOf(now)
                 ELSE month_param
    IN IF /\ group_param = AbsentGroup
          /\ is_student(u)
          /\ studentGroup[u.id] = NoGroup
       THEN {MonthlyResponse({}, {}, <<>>)}
       ELSE UNION {UNION {
              IF countable = {}
              THEN {MonthlyResponse(lq, {}, <<>>)}
              ELSE {MonthlyResponse(lq, countable,
                                    leaderboard_data(q, countable)) :
                       q \in MonthlyOrders(MonthlyStudents(u, group_param),
                                           countable)}
              : countable \in {CountableLessons(lq)}}
           : lq \in {MonthlyLessons(u, group_param, month)}}

\* DailyLeaderboardViewSet.monthly; the cache in front of it is left out.
monthly(u, group_param, month_param) ==
    /\ resp' \in MonthlyAnswers(u, group_param, month_param)
    /\ UNCHANGED <<now, groupTeacher, groupActive, studentActive,
                   studentGroup, lessons, homeworks, ratings,
                   leaderboard, procs>>

\* The status of the synthetic entry of a student without homework.
STATUS_MISSED == "MISSED"

\* homework.ratings.first(): Rating.Meta.ordering is ['-created_at'].
FirstRating(h) ==
    LET rs == {r \in ratings : r.homework = h.id}
    IN CHOOSE r \in rs : \A x \in rs : x.id <= r.id

\* A policy that never counts a student without homework as missed.
StatsEntryNoMissed(s, l) ==
    LET hw == {h \in homeworks : h.lesson = l /\ h.student = s}
        h == CHOOSE x \in hw : TRUE
    IN IF hw # {}
       THEN [student |-> s, listed |-> TRUE, status |-> h.status,
             score |-> IF \E r \in ratings : r.homework = h.id
                       THEN FirstRating(h).score ELSE AbsentScore]
       ELSE [student |-> s, listed |-> FALSE, status |-> Absent,
             score |-> AbsentScore]

\* student_data of one student of the roster (lessons/views.py 118-160);
\* listed: the entry goes to submitted_students.
StatsEntry(s, l) ==
    LET hw == {h \in homeworks : h.lesson = l /\ h.student = s}
        h == CHOOSE x \in hw : TRUE
    IN IF hw # {}
       THEN [student |-> s, listed |-> TRUE, status |-> h.status,
             score |-> IF \E r \in ratings : r.homework = h.id
                       THEN FirstRating(h).score ELSE AbsentScore]
       ELSE IF is_deadline_passed(l)
       THEN [student |-> s, listed |-> TRUE, status |-> STATUS_MISSED,
             score |-> 0]
       ELSE [student |-> s, listed |-> FALSE, status |-> Absent,
             score |-> AbsentScore]

\* The response of submission_stats (lessons/views.py 166-182), the two lists
\* as sets.
StatsResponse(l) ==
    LET all_students == {s \in Students : studentGroup[s] = lessons[l].group}
        entries == {StatsEntry(s, l) : s \in all_students}
        submitted_students == {e \in entries : e.listed}
    IN [op |-> "stats", code |-> 200, rated_count |-> 0, lesson |-> l,
        total_students |-> Cardinality(all_students),
        submitted_count |->
            Cardinality({e \in submitted_students : e.status # STATUS_MISSED}),
        missed_count |->
            Cardinality({e \in submitted_students : e.status = STATUS_MISSED}),
        not_submitted_count |-> Cardinality({e \in entries : ~e.listed}),
        submitted_students |-> submitted_students,
        not_submitted_students |-> {e.student : e \in entries \ submitted_students}]

\* LessonViewSet.submission_stats
submission_stats(u, l) ==
    /\ IF ~LessonVisible(u, l) THEN resp' = Response("stats", 404)
       ELSE IF is_student(u) /\ studentGroup[u.id] # lessons[l].group
       THEN resp' = Response("stats", 403)
       ELSE IF lessons[l].group = NoGroup THEN resp' = Response("stats", 400)
       ELSE resp' = StatsResponse(l)
    /\ UNCHANGED <<now, groupTeacher, groupActive, studentActive,
                   studentGroup, lessons, homeworks, ratings,
                   leaderboard, procs>>

\* The monthly specification (SpecMonthly) starts from a database of homework
\* on day 0: one group; student 1 in it and active, student 2 possibly
\* without group or inactive; lessons of the group with a deadline at day 0,
\* lesson 1 possibly differing in one column; for lessons 1 and 2 each
\* student's homework absent, submitted, or rated.
DefaultLesson == [group |-> 1, teacher |-> 1, deadline |-> 0,
                  created |-> 0, is_active |-> TRUE]

ReportLessonRows ==
    {DefaultLesson,
     [DefaultLesson EXCEPT !.group = NoGroup],
     [DefaultLesson EXCEPT !.deadline = NoDeadline],
     [DefaultLesson EXCEPT !.created = -1],
     [DefaultLesson EXCEPT !.is_active = FALSE]}

SubmittedHomework(s, l) ==
    [RatedHomework(s, l) EXCEPT !.status = STATUS_SUBMITTED]

ReportScores == {10}
SlotKinds == {Absent, STATUS_SUBMITTED, STATUS_RATED}

InitMonthly ==
    /\ now = 0
    /\ groupTeacher = [g \in 1..NumGroups |-> 1]
    /\ groupActive = [g \in 1..NumGroups |-> TRUE]
    /\ \E g \in {1, NoGroup}, a \in BOOLEAN :
          /\ g = 1 \/ a
          /\ studentGroup = [s \in 1..LbStudents |-> IF s = 1 THEN 1 ELSE g]
          /\ studentActive = [s \in 1..LbStudents |-> s = 1 \/ a]
    /\ lessons \in {f \in [1..LbLessons -> ReportLessonRows] :
                      \A l \in 2..LbLessons : f[l] = DefaultLesson}
    /\ \E kind \in [{x \in (1..LbStudents) \X (1..2) :
                        ~GroupMismatch(x[1], x[2])} -> SlotKinds],
          score \in ReportScores :
          /\ homeworks =
                {SubmittedHomework(x[1], x[2]) :
                    x \in {y \in DOMAIN kind : kind[y] = STATUS_SUBMITTED}}
                \cup {RatedHomework(x[1], x[2]) :
                    x \in {y \in DOMAIN kind : kind[y] = STATUS_RATED}}
          /\ ratings =
                {GivenRating(x[1], x[2], score) :
                    x \in {y \in DOMAIN kind : kind[y] = STATUS_RATED}}
    /\ leaderboard = {}
    /\ procs = [p \in Procs |-> Idle]
    /\ resp = Response("init", 0)

ReportUsers == {Admin, TeacherUser(1)} \cup {StudentUser(s) : s \in Students}
ReportGroups == {AbsentGroup, 1, 2}
ReportMonths == {AbsentMonth, -1}

NextMonthly ==
    \/ Tick
    \/ \E l \in Lessons : auto_rate_missing(Admin, l)
    \/ \E u \in ReportUsers, g \in ReportGroups, m \in ReportMonths :
          monthly(u, g, m)

SpecMonthly == InitMonthly /\ [][NextMonthly]_vars

\* The monthly leaderboard over many lessons (SpecMonthlyTies): TieLessons
\* lessons of the group with a deadline at day 0, three students of the group,
\* each rated once on lesson 1.  Past the deadline the averages are the
\* scores over TieLessons, where different totals round to the same average.
TieLessons == 11
TieStudents == 3
TieScores == {4, 5, 6}

InitMonthlyTies ==
    /\ now = 0
    /\ groupTeacher = [g \in 1..NumGroups |-> 1]
    /\ groupActive = [g \in 1..NumGroups |-> TRUE]
    /\ studentGroup = [s \in 1..TieStudents |-> 1]
    /\ studentActive = [s \in 1..TieStudents |-> TRUE]
    /\ lessons = [l \in 1..TieLessons |-> DefaultLesson]
    /\ \E score \in [1..TieStudents -> TieScores] :
          /\ homeworks = {RatedHomework(s, 1) : s \in 1..TieStudents}
          /\ ratings = {GivenRating(s, 1, score[s]) : s \in 1..TieStudents}
    /\ leaderboard = {}
    /\ procs = [p \in Procs |-> Idle]
    /\ resp = Response("init", 0)

NextMonthlyTies ==
    \/ Tick
    \/ \E u \in {Admin, TeacherUser(1)}, g \in {AbsentGroup, 1} :
          monthly(u, g, AbsentMonth)

SpecMonthlyTies == InitMonthlyTies /\ [][NextMonthlyTies]_vars

\* The statistics specification (SpecStats): one lesson with or without
\* group and deadline, three students inside or outside the group, and each
\* student's homework absent, submitted, or rated.
InitStats ==
    /\ now = 0
    /\ groupTeacher = [g \in 1..NumGroups |-> 1]
    /\ groupActive = [g \in 1..NumGroups |-> TRUE]
    /\ studentGroup \in [1..LbRaceStudents -> {1, NoGroup}]
    /\ studentActive = [s \in 1..LbRaceStudents |-> TRUE]
    /\ lessons \in [1..NumLessons ->
                      {DefaultLesson,
                       [DefaultLesson EXCEPT !.group = NoGroup],
                       [DefaultLesson EXCEPT !.deadline = NoDeadline]}]
    /\ \E kind \in [{x \in (1..LbRaceStudents) \X (1..NumLessons) :
                        ~GroupMismatch(x[1], x[2])} -> SlotKinds],
          score \in ReportScores :
          /\ homeworks =
                {SubmittedHomework(x[1], x[2]) :
                    x \in {y \in DOMAIN kind : kind[y] = STATUS_SUBMITTED}}
                \cup {RatedHomework(x[1], x[2]) :
                    x \in {y \in DOMAIN kind : kind[y] = STATUS_RATED}}
          /\ ratings =
                {GivenRating(x[1], x[2], score) :
                    x \in {y \in DOMAIN kind : kind[y] = STATUS_RATED}}
    /\ leaderboard = {}
    /\ procs = [p \in Procs |-> Idle]
    /\ resp = Response("init", 0)

NextStats ==
    \/ Tick
    \/ \E l \in Lessons : auto_rate_missing(Admin, l)
    \/ \E g \in Groups, s \in Students : assign_student(g, s)
    \/ \E g \in Groups, s \in Students : remove_student(g, s)
    \/ \E u \in ReportUsers, l \in Lessons : submission_stats(u, l)

SpecStats == InitStats /\ [][NextStats]_vars

\* The monthly leaderboard around auto_rate_missing (SpecMonthlyAuto): the
\* databases of SpecMonthly in which both students are active members of the
\* group and lesson 1 is an active lesson of the group created this month,
\* the staff's auto_rate_missing and the admin's leaderboard of the month.
InitMonthlyAuto ==
    /\ InitMonthly
    /\ \A s \in Students : studentGroup[s] = 1 /\ studentActive[s]
    /\ lessons[1].is_active /\ lessons[1].group = 1
    /\ lessons[1].created = 0

NextMonthlyAuto ==
    \/ Tick
    \/ \E l \in Lessons : auto_rate_missing(Admin, l)
    \/ monthly(Admin, AbsentGroup, AbsentMonth)

SpecMonthlyAuto == InitMonthlyAuto /\ [][NextMonthlyAuto]_vars

\* The monthly leaderboard beside rating creation (SpecMonthlyRated): the
\* databases of SpecMonthly in which lesson 1 has no group and both students
\* are active members of group 1; every teacher rates, the admin and the
\* teacher of the group read the leaderboard of the month.
InitMonthlyRated ==
    /\ InitMonthly
    /\ \A s \in Students : studentGroup[s] = 1 /\ studentActive[s]
    /\ lessons[1].group = NoGroup

NextMonthlyRated ==
    \/ Tick
    \/ \E t \in Teachers, id \in HomeworkIds, sc \in ReportScores :
          RatingCreate(t, id, sc)
    \/ \E u \in {Admin, TeacherUser(1)}, g \in {AbsentGroup, 1} :
          monthly(u, g, AbsentMonth)

SpecMonthlyRated == InitMonthlyRated /\ [][NextMonthlyRated]_vars

\* The ratings specification (SpecRatings): one lesson of group 1, two
\* students of the group, each student's homework absent, submitted, or
\* rated by teacher 1; teachers create and update ratings, the staff calls
\* auto_rate_missing.
RatingBodies ==
    {<<hw, sc>> : hw \in {AbsentHomework, 1, LbLessons + 1},
                  sc \in {AbsentScore, 5}}

InitRatings ==
    /\ now = 0
    /\ groupTeacher = [g \in 1..NumGroups |-> 1]
    /\ groupActive = [g \in 1..NumGroups |-> TRUE]
    /\ studentGroup = [s \in 1..LbStudents |-> 1]
    /\ studentActive = [s \in 1..LbStudents |-> TRUE]
    /\ lessons = [l \in 1..NumLessons |-> DefaultLesson]
    /\ \E kind \in [(1..LbStudents) \X (1..NumLessons) -> SlotKinds] :
          /\ homeworks =
                {SubmittedHomework(x[1], x[2]) :
                    x \in {y \in DOMAIN kind : kind[y] = STATUS_SUBMITTED}}
                \cup {RatedHomework(x[1], x[2]) :
                    x \in {y \in DOMAIN kind : kind[y] = STATUS_RATED}}
          /\ ratings =
                {GivenRating(x[1], x[2], 5) :
                    x \in {y \in DOMAIN kind : kind[y] = STATUS_RATED}}
    /\ leaderboard = {}
    /\ procs = [p \in Procs |-> Idle]
    /\ resp = Response("init", 0)

NextRatings ==
    \/ Tick
    \/ \E t \in Teachers, id \in HomeworkIds : RatingCreate(t, id, 5)
    \/ \E t \in Teachers, rid \in RatingIds, b \in RatingBodies :
          RatingUpdate(t, rid, b[1], b[2])
    \/ \E u \in Staff, l \in Lessons : auto_rate_missing(u, l)

SpecRatings == InitRatings /\ [][NextRatings]_vars

\* =============================================================== properties
\* The homework row with key id after the step.
HomeworkAfter(id) == CHOOSE k \in homeworks' : k.id = id

Users == {Admin} \cup {TeacherUser(t) : t \in Teachers}
              \cup {StudentUser(s) : s \in Students}

StatusRank(st) ==
    IF st = STATUS_PENDING THEN 0 ELSE IF st = STATUS_SUBMITTED THEN 1 ELSE 2

\* C1: a homework's status only advances PENDING -> SUBMITTED -> RATED; no
\* step (an edit by a student, a teacher or an admin included) sets a RATED
\* homework back.
C1_StatusOnlyAdvances ==
    [][\A h \in homeworks : \A k \in homeworks' :
          k.id = h.id => StatusRank(k.status) >= StatusRank(h.status)]_vars

\* C2: in every reachable state each RATED homework has at least one rating.
C2_RatedHasRating ==
    \A h \in homeworks :
        h.status = STATUS_RATED => \E r \in ratings : r.homework = h.id

\* C3: in every reachable state each homework has at most one rating.
C3_AtMostOneRating ==
    \A r1, r2 \in ratings : r1.homework = r2.homework => r1.id = r2.id

\* C4: no two homework rows share (student, lesson), whatever the
\* interleaving of the handlers' statements.
C4_UniqueStudentLesson ==
    \A h1, h2 \in homeworks :
        (h1.student = h2.student /\ h1.lesson = h2.lesson) => h1.id = h2.id

\* A submit whose existence query found no row, and whose insert the table
\* then refused because another request had inserted the row in between.
C4_Witness ==
    /\ resp = Response("submit", 500)
    /\ \E h \in homeworks : h.status = STATUS_SUBMITTED

\* C5: a rating with a score in 1..10 by a teacher allowed to rate the
\* homework sets a SUBMITTED or PENDING homework RATED and adds that one
\* rating; a second one for the same (homework, teacher) is refused and adds
\* no rating.
C5_RatingCreateRates ==
    [][resp'.op = "rate" =>
         \A t \in Teachers, id \in HomeworkIds, sc \in MinScore..MaxScore :
            ( /\ ~RatingRejected(t, HomeworkById(id), sc)
              /\ RatingCreate(t, id, sc) )
            => IF \E r \in ratings : r.homework = id /\ r.teacher = t
               THEN /\ resp'.code # 201
                    /\ ratings' = ratings
               ELSE /\ resp'.code = 201
                    /\ HomeworkAfter(id).status = STATUS_RATED
                    /\ \E r \in ratings' \ ratings :
                          /\ ratings' = ratings \cup {r}
                          /\ r.homework = id
                          /\ r.teacher = t
                          /\ r.score = sc]_vars

\* The second rating of a homework by its teacher was just refused.
C5_Witness ==
    /\ resp = Response("rate", 500)
    /\ \E h \in homeworks :
          /\ h.status = STATUS_RATED
          /\ \E r \in ratings : r.homework = h.id /\ r.score \in MinScore..MaxScore

Restamped(id) ==
    /\ HomeworkAfter(id).submitted_at = now
    /\ HomeworkAfter(id).status = STATUS_SUBMITTED

\* C7 as stated: every successful edit of a SUBMITTED homework, by
\* submit_for_lesson or by update / partial_update and whichever fields it
\* changes, re-stamps the submission time to now and leaves it SUBMITTED.
C7_EveryEditRestamps ==
    [][/\ resp' = Response("update", 200) =>
            \A u \in Users, id \in HomeworkIds, d \in UpdateInputs :
               ( /\ HomeworkById(id).status = STATUS_SUBMITTED
                 /\ perform_update(u, id, d) )
               => Restamped(id)
       /\ resp' = Response("submit", 200) =>
            \A s \in Students, l \in Lessons, d \in SubmitInputs :
               ( /\ \E h \in FirstHomework(s, l) : h.status = STATUS_SUBMITTED
                 /\ submit_for_lesson(s, l, d) )
               => \A h \in FirstHomework(s, l) : Restamped(h.id)]_vars

\* Whether a body supplies a non-empty submission URL or file.
SuppliesSubmission(d) ==
    \/ d.submission_url \notin {Absent, Empty}
    \/ d.submission_file \notin {Absent, Empty}

\* C7: every successful submit_for_lesson over a SUBMITTED homework, and every
\* successful update / partial_update of one that supplies a non-empty
\* submission URL or file, re-stamps the submission time to now and leaves it
\* SUBMITTED; an update that supplies neither keeps the submission time.
C7_SubmissionEditRestamps ==
    [][/\ resp' = Response("update", 200) =>
            \A u \in Users, id \in HomeworkIds, d \in UpdateInputs :
               ( /\ HomeworkById(id).status = STATUS_SUBMITTED
                 /\ perform_update(u, id, d) )
               => IF SuppliesSubmission(d)
                  THEN Restamped(id)
                  ELSE /\ HomeworkAfter(id).submitted_at
                             = HomeworkById(id).submitted_at
                       /\ HomeworkAfter(id).status = STATUS_SUBMITTED
       /\ resp' = Response("submit", 200) =>
            \A s \in Students, l \in Lessons, d \in SubmitInputs :
               ( /\ \E h \in FirstHomework(s, l) : h.status = STATUS_SUBMITTED
                 /\ submit_for_lesson(s, l, d) )
               => \A h \in FirstHomework(s, l) : Restamped(h.id)]_vars

\* An update has just been saved on a later day over a homework that now
\* holds a URL and a file, and carries that day.
C7_Witness ==
    /\ resp = Response("update", 200)
    /\ now > 0
    /\ \E h \in homeworks :
          /\ h.status = STATUS_SUBMITTED
          /\ h.submission_url # Empty
          /\ h.submission_file # Empty
          /\ h.submitted_at = now

\* The persisted entries of the scope (d, g).
ScopeEntries(d, g) == {e \in leaderboard : e.date = d /\ e.group = g}

\* The groups a successful calculation answered for.
AnsweredGroups ==
    IF resp.group # AbsentGroup THEN {resp.group}
    ELSE {g \in Groups : groupActive[g]}

\* C8: a daily calculation right after a successful one for the same date and
\* group, the ratings and the roster unchanged, leaves the persisted rows
\* identical, tied averages included.
C8_RecalculationIdentical ==
    [][( /\ resp.op = "calc"
         /\ resp.code = 201
         /\ resp'.op = "calc"
         /\ resp'.code = 201
         /\ resp'.date = resp.date
         /\ resp'.group = resp.group
         /\ ratings' = ratings
         /\ studentGroup' = studentGroup )
       => leaderboard' = leaderboard]_vars

\* Whether the scope (d, g) holds one row per student of g rated on d, no
\* other row, and in each row the student's number of ratings on d.
ScopeRowsMatch(d, g) ==
    /\ \A s \in GroupRated(g, d) :
          Cardinality({e \in ScopeEntries(d, g) : e.student = s}) = 1
    /\ \A e \in ScopeEntries(d, g) :
          /\ e.student \in GroupRated(g, d)
          /\ e.total_ratings = Cardinality(RatingsOf(e.student, d))

\* average_score * n - 100 * total, for the scores of the row's student: the
\* distance of the stored average (in hundredths) from the mean, times n.
MeanGap(e) ==
    e.average_score * Cardinality(RatingsOf(e.student, e.date))
        - 100 * SumScores(RatingsOf(e.student, e.date))

\* C9 as stated: after a successful daily calculation the scope holds one row
\* per rated student of the group and no other, each with the student's
\* number of ratings and, as average_score, the arithmetic mean of the scores
\* (to the two decimal places the column holds).
C9_RowsHoldMean ==
    (resp.op = "calc" /\ resp.code = 201)
    => \A g \in AnsweredGroups :
          /\ ScopeRowsMatch(resp.date, g)
          /\ \A e \in ScopeEntries(resp.date, g) :
                /\ 2 * MeanGap(e) <= e.total_ratings
                /\ 2 * MeanGap(e) >= -e.total_ratings

\* C9: the same, with average_score the arithmetic mean rounded to one
\* decimal place.
C9_RowsHoldRoundedMean ==
    (resp.op = "calc" /\ resp.code = 201)
    => \A g \in AnsweredGroups :
          /\ ScopeRowsMatch(resp.date, g)
          /\ \A e \in ScopeEntries(resp.date, g) :
                /\ e.average_score % 10 = 0
                /\ MeanGap(e) <= 5 * e.total_ratings
                /\ MeanGap(e) >= -5 * e.total_ratings

\* A calculation has just succeeded and stored a mean that one decimal place
\* does not hold, beside a student of another group who has no row in the
\* scope.
C9_Witness ==
    /\ resp.op = "calc"
    /\ resp.code = 201
    /\ resp.group # AbsentGroup
    /\ \E e \in ScopeEntries(resp.date, resp.group) : MeanGap(e) # 0
    /\ \E s \in Students :
          /\ RatingsOf(s, resp.date) # {}
          /\ studentGroup[s] # resp.group

\* C10: in every reachable state, within each (date, group) scope, a lower
\* rank never goes with a lower average_score.
C10_RankFollowsAverage ==
    \A e1, e2 \in leaderboard :
        (e1.date = e2.date /\ e1.group = e2.group /\ e1.rank < e2.rank)
        => e1.average_score >= e2.average_score

\* The deadline of lesson l is absent or not yet behind the clock.
DeadlineOpen(l) ==
    lessons[l].deadline = NoDeadline \/ now <= lessons[l].deadline

\* C13: auto_rate_missing for a lesson whose deadline has not passed, or
\* which has none, is answered with an error and adds no rating and no
\* homework.
C13_AutoRateNeedsPassedDeadline ==
    [][resp'.op = "auto_rate" =>
         \A u \in Staff, l \in Lessons :
            (DeadlineOpen(l) /\ auto_rate_missing(u, l))
            => /\ resp'.code \in {400, 403, 404}
               /\ homeworks' = homeworks
               /\ ratings' = ratings]_vars

\* auto_rate_missing has just been refused for a lesson that has a group, a
\* teacher and a student without homework, and whose deadline is still open.
C13_Witness ==
    /\ resp = AutoRateResponse(400, 0)
    /\ \A l \in Lessons :
          /\ DeadlineOpen(l)
          /\ lessons[l].group # NoGroup
          /\ lessons[l].teacher # NoTeacher
          /\ MissingStudents(l) # {}

\* C14: auto_rate_missing for a lesson without a group, or for a lesson
\* without a teacher when the caller is not a teacher, is answered with an
\* error and adds no rating and no homework.
C14_AutoRateNeedsGroupAndTeacher ==
    [][resp'.op = "auto_rate" =>
         \A u \in Staff, l \in Lessons :
            ( /\ \/ lessons[l].group = NoGroup
                 \/ lessons[l].teacher = NoTeacher /\ ~is_teacher(u)
              /\ auto_rate_missing(u, l) )
            => /\ resp'.code \in {400, 403, 404}
               /\ homeworks' = homeworks
               /\ ratings' = ratings]_vars

\* auto_rate_missing has just been refused for a lesson past its deadline,
\* with a group and a student without homework, but without a teacher.
C14_Witness ==
    /\ resp = AutoRateResponse(400, 0)
    /\ \A l \in Lessons :
          /\ ~DeadlineOpen(l)
          /\ lessons[l].group # NoGroup
          /\ lessons[l].teacher = NoTeacher
          /\ MissingStudents(l) # {}

\* C18: a teacher's rating request with a score outside 1..10 is refused and
\* changes neither the ratings nor the homeworks; every persisted rating has
\* a score in 1..10, or the score 0 and the comment of auto_rate_missing.
C18_ScoresInRange ==
    [][/\ resp'.op = "rate" =>
            \A t \in Teachers, id \in HomeworkIds,
               sc \in LifecycleScores \ (MinScore..MaxScore) :
               RatingCreate(t, id, sc)
               => /\ resp'.code = 400
                  /\ ratings' = ratings
                  /\ homeworks' = homeworks
       /\ \A r \in ratings' :
             \/ r.score \in MinScore..MaxScore
             \/ r.score = 0 /\ r.comment = AutoComment]_vars

\* A rating request for a submitted homework of a lesson any teacher may rate
\* has just been refused.
C18_Witness ==
    /\ resp = Response("rate", 400)
    /\ \E h \in homeworks :
          /\ h.status = STATUS_SUBMITTED
          /\ lessons[h.lesson].group = NoGroup

\* The groups of the answered calculation that have a rating on its date.
AnsweredRated == {g \in AnsweredGroups : GroupRated(g, resp.date) # {}}

\* The rows of the answered calculation's date in the groups it answered for.
AnsweredRows ==
    {e \in leaderboard : e.date = resp.date /\ e.group \in AnsweredGroups}

\* C16: a daily calculation for an existing scope leaves no row for a group
\* without ratings on the date; it answers 404 exactly when no group of the
\* scope has a rating on the date, and otherwise 201 with groups_processed the
\* number of groups that have ratings and count the number of rows written.
C16_NoRatingsIsNotFound ==
    ( /\ resp.op = "calc"
      /\ resp.code # 400
      /\ resp.group \in Groups \cup {AbsentGroup} )
    => /\ \A g \in AnsweredGroups \ AnsweredRated :
             ScopeEntries(resp.date, g) = {}
       /\ resp.code = 404 <=> AnsweredRated = {}
       /\ resp.code # 404 =>
             /\ resp.code = 201
             /\ resp.groups_processed = Cardinality(AnsweredRated)
             /\ resp.count = Cardinality(AnsweredRows)

\* A calculation over all active groups has succeeded for one group while
\* skipping another that has no rating on the date.
C16_Witness ==
    /\ resp.op = "calc"
    /\ resp.code = 201
    /\ resp.group = AbsentGroup
    /\ resp.groups_processed = 1
    /\ AnsweredGroups \ AnsweredRated # {}

\* C17: no two persisted leaderboard rows share student, date and group, the
\* statements of two calculations interleaved in any order.
C17_UniqueStudentDateGroup ==
    \A e1, e2 \in leaderboard :
        (e1.student = e2.student /\ e1.date = e2.date /\ e1.group = e2.group)
        => e1 = e2

\* The bulk_create of one calculation has been refused over the rows the
\* other one inserted in between.
C17_Witness ==
    /\ resp.op = "calc"
    /\ resp.code = 500
    /\ leaderboard # {}

\* The rows a calculation for date d and group parameter g replaces.
InScope(e, d, g) ==
    e.date = d /\ (g = AbsentGroup \/ e.group = g)

\* C19: a successful daily calculation leaves in its scope (the date, and the
\* group when one is given) exactly the rows of one computation over the
\* current ratings, and leaves every row outside the scope as it was.
C19_ScopeReplaced ==
    [][(resp'.op = "calc" /\ resp'.code = 201) =>
         /\ {e \in leaderboard' : InScope(e, resp'.date, resp'.group)}
               \in AllEntries(CalcGroups(resp'.group), resp'.date)
         /\ {e \in leaderboard' : ~InScope(e, resp'.date, resp'.group)}
               = {e \in leaderboard : ~InScope(e, resp'.date, resp'.group)}]_vars

\* A calculation for one group has succeeded beside rows of another date and
\* rows of another group on the same date.
C19_Witness ==
    /\ resp.op = "calc"
    /\ resp.code = 201
    /\ resp.group # AbsentGroup
    /\ \E e \in leaderboard : e.date # resp.date
    /\ \E e \in leaderboard : e.date = resp.date /\ e.group # resp.group

\* C20: after a successful daily calculation the ranks within each group's
\* rows of the date are exactly 1..n, n the number of rows, each used once.
C20_RanksAreOrdinal ==
    (resp.op = "calc" /\ resp.code = 201)
    => \A g \in Groups :
          LET es == ScopeEntries(resp.date, g)
          IN /\ {e.rank : e \in es} = 1..Cardinality(es)
             /\ \A e1, e2 \in es : e1.rank = e2.rank => e1 = e2

\* A calculation has succeeded and stored two students of equal average at
\* ranks 1 and 2.
C20_Witness ==
    /\ resp.op = "calc"
    /\ resp.code = 201
    /\ \E e1, e2 \in leaderboard :
          /\ e1.date = resp.date /\ e2.date = resp.date
          /\ e1.group = e2.group
          /\ e1.average_score = e2.average_score
          /\ e1.rank = 1 /\ e2.rank = 2

\* average_score * n - 100 * total for a row of the monthly response, n the
\* number of countable lessons and total the sum of the student's scores on
\* them: the distance of the average (in hundredths) from the quotient, times n.
MonthGap(e) ==
    e.average_score * Cardinality(resp.countable_lesson_ids)
        - 100 * SumScores(MonthRatings(e.student, resp.countable_lesson_ids))

\* C11 as stated: every row of the monthly leaderboard carries, as average, the
\* sum of the student's scores on countable lessons divided by the number of
\* countable lessons (to two decimal places).
C11_AverageOverCountable ==
    resp.op = "monthly"
    => \A i \in DOMAIN resp.leaderboard :
          /\ 2 * MonthGap(resp.leaderboard[i])
                <= Cardinality(resp.countable_lesson_ids)
          /\ 2 * MonthGap(resp.leaderboard[i])
                >= -Cardinality(resp.countable_lesson_ids)

\* C11: the same, with the average the quotient rounded to one decimal place.
C11_RoundedAverageOverCountable ==
    resp.op = "monthly"
    => \A i \in DOMAIN resp.leaderboard :
          /\ resp.leaderboard[i].average_score % 10 = 0
          /\ MonthGap(resp.leaderboard[i])
                <= 5 * Cardinality(resp.countable_lesson_ids)
          /\ MonthGap(resp.leaderboard[i])
                >= -5 * Cardinality(resp.countable_lesson_ids)

\* A monthly leaderboard lists a student rated on fewer lessons than are
\* countable, with a quotient that one decimal place does not hold.
C11_Witness ==
    /\ resp.op = "monthly"
    /\ \E i \in DOMAIN resp.leaderboard :
          /\ MonthGap(resp.leaderboard[i]) # 0
          /\ resp.leaderboard[i].total_ratings > 0
          /\ resp.leaderboard[i].total_ratings
                < Cardinality(resp.countable_lesson_ids)

\* C12: of the active lessons of the month in the scope of a monthly request,
\* the countable ones are exactly those whose deadline is set and passed or
\* which have a homework with status RATED.
C12_CountableLessons ==
    resp.op = "monthly"
    => /\ resp.countable_lesson_ids \subseteq resp.lessons_query
       /\ \A l \in resp.lessons_query :
             /\ lessons[l].is_active
             /\ l \in resp.countable_lesson_ids
                <=> \/ lessons[l].deadline # NoDeadline /\ now > lessons[l].deadline
                    \/ \E h \in homeworks :
                          h.lesson = l /\ h.status = STATUS_RATED

\* A monthly request has counted a lesson whose deadline has not passed, for
\* its rated homework, and has left out another lesson of its scope.
C12_Witness ==
    /\ resp.op = "monthly"
    /\ \E l1, l2 \in resp.lessons_query :
          /\ l1 \in resp.countable_lesson_ids
          /\ ~(lessons[l1].deadline # NoDeadline /\ now > lessons[l1].deadline)
          /\ l2 \notin resp.countable_lesson_ids

\* The students of the group of the lesson a statistics response is about,
\* and those of them with a homework for it.
StatsRoster == {s \in Students : studentGroup[s] = lessons[resp.lesson].group}
StatsWithHomework ==
    {s \in StatsRoster :
        \E h \in homeworks : h.lesson = resp.lesson /\ h.student = s}

\* C15: submission_stats for a lesson with a group counts every student of
\* the roster once: with a homework as submitted, without one as missed
\* (status MISSED, score 0) when the deadline has passed and as not submitted
\* otherwise; the three counters add up to total_students.
C15_StatsPartition ==
    (resp.op = "stats" /\ resp.code = 200)
    => LET passed == /\ lessons[resp.lesson].deadline # NoDeadline
                     /\ now > lessons[resp.lesson].deadline
           without == StatsRoster \ StatsWithHomework
       IN /\ resp.total_students = Cardinality(StatsRoster)
          /\ resp.submitted_count + resp.missed_count
                + resp.not_submitted_count = resp.total_students
          /\ resp.submitted_count = Cardinality(StatsWithHomework)
          /\ \A s \in StatsWithHomework :
                \E e \in resp.submitted_students :
                   e.student = s /\ e.status # STATUS_MISSED
          /\ resp.missed_count = IF passed THEN Cardinality(without) ELSE 0
          /\ resp.not_submitted_count =
                IF passed THEN 0 ELSE Cardinality(without)
          /\ \A s \in without :
                IF passed
                THEN [student |-> s, listed |-> TRUE,
                      status |-> STATUS_MISSED, score |-> 0]
                        \in resp.submitted_students
                ELSE s \in resp.not_submitted_students

\* The statistics of a lesson past its deadline count one student as
\* submitted and another as missed.
C15_Witness ==
    /\ resp.op = "stats"
    /\ resp.code = 200
    /\ resp.submitted_count > 0
    /\ resp.missed_count > 0

\* The sum of the scores behind row i of the monthly response.
MonthTotal(i) ==
    SumScores(MonthRatings(resp.leaderboard[i].student,
                           resp.countable_lesson_ids))

\* C21: the rows of the monthly leaderboard carry the ranks 1..n by position
\* and stand in descending order of average and, on equal averages, of total
\* score.
C21_MonthlyOrder ==
    resp.op = "monthly"
    => \A i \in DOMAIN resp.leaderboard :
          /\ resp.leaderboard[i].rank = i
          /\ i + 1 \in DOMAIN resp.leaderboard =>
                /\ resp.leaderboard[i].average_score
                      >= resp.leaderboard[i + 1].average_score
                /\ resp.leaderboard[i].average_score
                      = resp.leaderboard[i + 1].average_score
                   => MonthTotal(i) >= MonthTotal(i + 1)

\* A monthly leaderboard lists two students of equal average and different
\* totals next to each other, above a student of lower average.
C21_Witness ==
    /\ resp.op = "monthly"
    /\ \E i, j \in DOMAIN resp.leaderboard :
          /\ i + 1 \in DOMAIN resp.leaderboard
          /\ resp.leaderboard[i].average_score
                = resp.leaderboard[i + 1].average_score
          /\ MonthTotal(i) > MonthTotal(i + 1)
          /\ resp.leaderboard[j].average_score
                < resp.leaderboard[i].average_score

\* The requests in flight between their DELETE and their bulk_create.
InFlight == {p \in Procs : procs[p].pc \in {"calc_read", "calc_insert"}}

\* C22: right after the DELETE of a daily calculation, which is a state of
\* its own before the bulk_create, every reader's list of the scope is empty,
\* whatever the ratings are.
C22_ReaderSeesEmptyScope ==
    [][resp'.op = "calc_delete" =>
         \A p \in Procs :
            (procs[p] = Idle /\ procs'[p] # Idle)
            => \A d \in 0..MaxTime, g \in Groups \cup {AbsentGroup} :
                  (procs'[p].date = d /\ procs'[p].group = g)
                  => \A u \in {Admin, TeacherUser(1)}
                                \cup {StudentUser(s) : s \in Students} :
                        LeaderboardList(u, d, g)' = {}]_vars

\* A calculation has deleted the rows its scope held and has not inserted
\* yet: the admin's list of the date is empty while students of the group
\* have ratings on it.
C22_Witness ==
    /\ resp.op = "calc_delete"
    /\ resp.deleted > 0
    /\ \E p \in InFlight :
          /\ LeaderboardList(Admin, procs[p].date, procs[p].group) = {}
          /\ \E g \in CalcGroups(procs[p].group) :
                GroupRated(g, procs[p].date) # {}

\* C24: every homework with status SUBMITTED has a submission URL or a
\* submission file.
C24_SubmittedHasPayload ==
    \A h \in homeworks : h.status = STATUS_SUBMITTED => has_submission(h)

\* C25: the student of every rating is the student of the homework the
\* rating references.
C25_RatingStudentIsHomeworkStudent ==
    \A r \in ratings :
        r.homework \in HomeworkIds
        /\ r.student = HomeworkById(r.homework).student

\* The students the last submission_stats answer lists as MISSED.
StatsMissed ==
    {e.student : e \in {x \in resp.submitted_students : x.status = STATUS_MISSED}}

\* C23: when auto_rate_missing succeeds for a lesson directly after
\* submission_stats answered for it, the students it creates a rating for
\* are the students the answer listed as MISSED, each rating has score 0, and
\* rated_count is the number of those students.
C23_MissedAreZeroRated ==
    [][(/\ resp.op = "stats" /\ resp.code = 200
        /\ resp'.op = "auto_rate" /\ resp'.code = 200)
       => \A u \in Staff :
            auto_rate_missing(u, resp.lesson)
            => /\ {r.student : r \in ratings' \ ratings} = StatsMissed
               /\ \A r \in ratings' \ ratings : r.score = 0
               /\ Cardinality(ratings' \ ratings) = Cardinality(StatsMissed)
               /\ resp'.rated_count = Cardinality(StatsMissed)]_vars

C23_Witness ==
    /\ resp.op = "auto_rate" /\ resp.code = 200 /\ resp.rated_count >= 2
    /\ Cardinality({r \in ratings : r.comment = AutoComment}) = resp.rated_count
    /\ \E h \in homeworks : h.description # AutoDescription

\* The ratings of homework h in the table rows.
RatingsOn(rows, h) == {r \in rows : r.homework = h.id}

\* C26: in the state a successful auto_rate_missing call for a lesson leaves,
\* the same call for the same lesson succeeds, creates no homework and no
\* rating and answers rated_count 0; and every auto_rate_missing call keeps
\* every homework row it found, with the ratings the row had.
C26_AutoRateIdempotent ==
    [][resp'.op = "auto_rate"
       => /\ \A h \in homeworks :
               h \in homeworks' /\ RatingsOn(ratings', h) = RatingsOn(ratings, h)
          /\ \A r \in ratings : r \in ratings'
          /\ resp'.code = 200
             => \A u \in Staff, l \in Lessons :
                  auto_rate_missing(u, l)
                  => /\ AutoRateCheck(u, l)' = 0
                     /\ \A order \in Orders(MissingStudents(l))' :
                          AutoRateLoop(order, l, ResolvedTeacher(u, l),
                                       homeworks, ratings, 0)'
                            = [hw |-> homeworks', rt |-> ratings', n |-> 0]]_vars

C26_Witness ==
    /\ resp = AutoRateResponse(200, 0)
    /\ \E r \in ratings : r.comment = AutoComment
    /\ \E h \in homeworks :
          h.status = STATUS_SUBMITTED /\ RatingsOn(ratings, h) = {}

\* C30: in the state a successful auto_rate_missing call for a lesson leaves,
\* the submission_stats answer for the lesson has missed_count 0 and
\* not_submitted_count 0, counts every student of the group in
\* submitted_count, and lists every student the call created homework for
\* with status RATED and score 0.
C30_StatsAfterAutoRate ==
    [][(resp'.op = "auto_rate" /\ resp'.code = 200)
       => \A u \in Staff, l \in Lessons :
            auto_rate_missing(u, l)
            => /\ StatsResponse(l)'.missed_count = 0
               /\ StatsResponse(l)'.not_submitted_count = 0
               /\ StatsResponse(l)'.submitted_count
                    = StatsResponse(l)'.total_students
               /\ \A s \in MissingStudents(l) :
                    [student |-> s, listed |-> TRUE, status |-> STATUS_RATED,
                     score |-> 0] \in StatsResponse(l)'.submitted_students]_vars

C30_Witness ==
    /\ resp.op = "stats" /\ resp.code = 200
    /\ resp.missed_count = 0 /\ resp.not_submitted_count = 0
    /\ resp.submitted_count >= 2
    /\ \E h \in homeworks :
          /\ h.description = AutoDescription /\ h.lesson = resp.lesson
          /\ [student |-> h.student, listed |-> TRUE, status |-> STATUS_RATED,
              score |-> 0] \in resp.submitted_students

\* The rank, student and average of every row of every board in the set of
\* answers A.
Ranking(A) ==
    {[i \in DOMAIN a.leaderboard |->
        [rank |-> a.leaderboard[i].rank,
         student |-> a.leaderboard[i].student,
         average_score |-> a.leaderboard[i].average_score]] : a \in A}

\* C27: a successful auto_rate_missing call changes no student's rank and no
\* student's average in the monthly leaderboard of any request (a call that
\* writes no row leaves every answer as it was).
C27_AutoRateKeepsMonthly ==
    [][(/\ resp'.op = "auto_rate" /\ resp'.code = 200
        /\ <<homeworks, ratings>>' # <<homeworks, ratings>>)
       => \A u \in ReportUsers, g \in ReportGroups, m \in ReportMonths :
            Ranking(MonthlyAnswers(u, g, m))' = Ranking(MonthlyAnswers(u, g, m))]_vars

C27_Witness ==
    /\ resp.op = "auto_rate" /\ resp.code = 200 /\ resp.rated_count > 0
    /\ \E a \in MonthlyAnswers(Admin, AbsentGroup, AbsentMonth) :
          \E i, j \in DOMAIN a.leaderboard :
              /\ a.leaderboard[i].average_score > 0
              /\ \E r \in ratings :
                    /\ r.comment = AutoComment
                    /\ r.student = a.leaderboard[j].student

\* C28: a daily calculation that answers 404 for want of ratings leaves the
\* leaderboard without the rows of the requested scope (the date, and the
\* group when one is given) and with every other row; a calculation refused
\* for a malformed date (400) or an unknown group (404) leaves the leaderboard
\* as it was.
C28_NotFoundClearsScope ==
    [][resp'.op = "calc" =>
         /\ (resp'.code = 404 /\ resp'.group \in Groups \cup {AbsentGroup})
            => leaderboard'
                 = {e \in leaderboard : ~InScope(e, resp'.date, resp'.group)}
         /\ (\/ resp'.code = 400
             \/ resp'.code = 404 /\ resp'.group \notin Groups \cup {AbsentGroup})
            => leaderboard' = leaderboard]_vars

\* A calculation for one group has answered 404 for want of ratings: the
\* group has no row on the date, a student who no longer belongs to it has
\* ratings on the date, and rows of another group on the date are in place.
C28_Witness ==
    /\ resp.op = "calc"
    /\ resp.code = 404
    /\ resp.group \in Groups
    /\ ScopeEntries(resp.date, resp.group) = {}
    /\ \E s \in Students :
          RatingsOf(s, resp.date) # {} /\ studentGroup[s] # resp.group
    /\ \E e \in leaderboard : e.date = resp.date /\ e.group # resp.group

\* The rows of student s on the board of answer a.
RowsOf(a, s) == {i \in DOMAIN a.leaderboard : a.leaderboard[i].student = s}

\* C29: in every answer monthly can give, every average lies between 0 and
\* 10 (in hundredths), and a board that is not empty lists every active
\* student of the request's groups exactly once, with average 0 when the
\* student has no rating on a countable lesson.
C29_MonthlyAverageInRange ==
    \A u \in ReportUsers, g \in ReportGroups, m \in ReportMonths :
        \A a \in MonthlyAnswers(u, g, m) :
            /\ \A i \in DOMAIN a.leaderboard :
                  /\ a.leaderboard[i].average_score >= 0
                  /\ a.leaderboard[i].average_score <= 100 * MaxScore
            /\ a.leaderboard # <<>>
               => \A s \in MonthlyStudents(u, g) :
                    /\ Cardinality(RowsOf(a, s)) = 1
                    /\ MonthRatings(s, a.countable_lesson_ids) = {}
                       => \A i \in RowsOf(a, s) :
                             a.leaderboard[i].average_score = 0
====
